---- MODULE Spec2Model ----
(***************************************************************************)
(* The request handlers of auth-server/handlers.go (signupHandler,         *)
(* loginHandler, getReportsHandler, getUserInfoHandler) running as         *)
(* concurrent requests against the two MongoDB collections usersColl and   *)
(* reportsColl.  Each store call is one atomic step of the collection;     *)
(* the code between two store calls touches only the request's locals and  *)
(* is folded into the step of the store call that precedes it.             *)
(***************************************************************************)
EXTENDS Integers, Sequences, FiniteSets, TLC

\* Number of requests served in one behaviour.
MaxReq == 2
\* Number of documents in the reports collection.
MaxReports == 3

\* usersColl, reportsColl: the documents of the two collections, in
\*   collection order.
\* uniqueEmail: whether the users collection carries a unique index on
\*   email.  No handler creates or tests one, so both deployments are kept.
\* req: per request, the handler it runs, its position, its input, the err
\*   values its calls returned and the response it wrote.
VARIABLES usersColl, reportsColl, uniqueEmail, req

vars == <<usersColl, reportsColl, uniqueEmail, req>>

Req == 1..MaxReq

---------------------------------------------------------------------------
(* primitive.ObjectID and its hex text.  An ObjectID is modelled by a      *)
(* number n >= 1 (0 is the zero ObjectID); HexLower[n] is the text Hex()   *)
(* prints for it, HexUpper[n] the same digits in upper case, which         *)
(* ObjectIDFromHex decodes to the same ObjectID.                           *)

HexLower == <<"0a", "0b", "0c", "0d", "0e", "0f">>
HexUpper == <<"0A", "0B", "0C", "0D", "0E", "0F">>

Hex(id) == HexLower[id]

\* ObjectIDFromHex with the error dropped: a text that is no hex yields an
\* ObjectID all the same, one that no document carries.
ObjectIDFromHexErrorDropped(s) ==
    IF \E n \in DOMAIN HexLower : s = HexLower[n] \/ s = HexUpper[n]
    THEN CHOOSE n \in DOMAIN HexLower : s = HexLower[n] \/ s = HexUpper[n]
    ELSE Len(HexLower)

\* The ObjectID a text decodes to, 0 when ObjectIDFromHex returns an error.
ObjectIDFromHex(s) ==
    IF \E n \in DOMAIN HexLower : s = HexLower[n] \/ s = HexUpper[n]
    THEN CHOOSE n \in DOMAIN HexLower : s = HexLower[n] \/ s = HexUpper[n]
    ELSE 0

---------------------------------------------------------------------------
(* bcrypt: the digest is a text that embeds the password it was made from  *)
(* behind the algorithm prefix; comparison succeeds exactly on the digest  *)
(* of the same password.                                                   *)

GenerateFromPassword(password) == "$2a$" \o password

CompareHashAndPassword(hashed, password) == hashed = GenerateFromPassword(password)

\* generateJWT(userID): the token binds the identifier text it was given.
generateJWT(userID) == "jwt." \o userID

---------------------------------------------------------------------------
(* Inputs.                                                                 *)

\* The account the users collection holds before the first request.
SeedUser ==
    [ID |-> 1, Email |-> "a@x.com", Password |-> GenerateFromPassword("pw1"),
     FirstName |-> "Ann", LastName |-> "Lee"]

\* Request bodies of POST signup; bindOK is the outcome of ShouldBindJSON.
SignupRequests ==
    { [bindOK |-> TRUE, Email |-> "a@x.com", Password |-> "pw2",
       FirstName |-> "Bob", LastName |-> "Ray"],
      [bindOK |-> TRUE, Email |-> "b@x.com", Password |-> "pw1",
       FirstName |-> "Cy", LastName |-> "Lee"],
      [bindOK |-> FALSE, Email |-> "", Password |-> "",
       FirstName |-> "", LastName |-> ""] }

\* Request bodies of POST login.
LoginRequests ==
    { [bindOK |-> TRUE, Email |-> "a@x.com", Password |-> "pw1"],
      [bindOK |-> TRUE, Email |-> "a@x.com", Password |-> "pw2"],
      [bindOK |-> TRUE, Email |-> "b@x.com", Password |-> "pw1"],
      [bindOK |-> FALSE, Email |-> "", Password |-> ""] }

\* Values of the "userID" context key: hex texts in both cases, a text that
\* is no hex, and the empty text GetString returns for a missing key.
UserIDs == {"0a", "0A", "0b", "zz", ""}

\* The reports collections considered: the first k documents belong to
\* "0a", the others to "0b".
ReportsFixture(k) ==
    [i \in 1..MaxReports |-> [ID |-> i, UserID |-> IF i <= k THEN "0a" ELSE "0b"]]

---------------------------------------------------------------------------
(* The collections.                                                        *)

\* Indexes of the documents selected by the filters the handlers use:
\* {"email": email} and {"_id": id} on users, {"user_id": userID} on reports.
ByEmail(coll, email) == {i \in DOMAIN coll : coll[i].Email = email}
ByID(coll, id) == {i \in DOMAIN coll : coll[i].ID = id}
ByUserID(coll, userID) == {i \in DOMAIN coll : coll[i].UserID = userID}

Min(S) == CHOOSE i \in S : \A j \in S : i <= j

\* The ObjectID the driver assigns to an inserted document.
NewObjectID(coll) == Len(coll) + 1

\* FindOne(...).Decode(&doc) over the matching documents: err is nil and doc
\* the first matching document in collection order, or ErrNoDocuments, or
\* another error when the call fails or times out (dbOK = FALSE).
FindOneErr(matching, dbOK) ==
    IF ~dbOK THEN "store_error"
    ELSE IF matching = {} THEN "ErrNoDocuments"
    ELSE "nil"

FindOneDoc(coll, matching) == coll[Min(matching)]

---------------------------------------------------------------------------
(* Responses written with c.JSON.                                          *)

ErrorResponse(status, error, message) ==
    [status |-> status, body |-> [error |-> error, message |-> message]]

\* The JSON encoding of a User value.
UserJSON(user) ==
    [id |-> IF user.ID = 0 THEN "" ELSE Hex(user.ID), email |-> user.Email,
     first_name |-> user.FirstName, last_name |-> user.LastName]

LoginResponse(status, user, token) ==
    [status |-> status, body |-> [user |-> UserJSON(user), token |-> token]]

SuccessResponse(message, data) ==
    [status |-> 200, body |-> [message |-> message, data |-> data]]

\* c.JSON has not been called yet.
NoResponse == [status |-> 0, body |-> [error |-> "", message |-> ""]]

\* The zero value of User.
ZeroUser == [ID |-> 0, Email |-> "", Password |-> "", FirstName |-> "", LastName |-> ""]

Idle == [kind |-> "idle", pc |-> "idle"]

\* Requests are numbered in the order in which they arrive.
CanArrive(r) == req[r].pc = "idle" /\ (IF r = 1 THEN TRUE ELSE req[r - 1].pc # "idle")

---------------------------------------------------------------------------
(* signupHandler.  signupLookup runs from the entry of the handler through *)
(* FindOne and the hashing of the password, and issues InsertOne;          *)
(* signupInsert is the return of InsertOne and runs to the end.  At pc     *)
(* "insert" the InsertOne call is in flight.  requestCanceled tells whether *)
(* the context of the inbound request is cancelled: by the caller giving   *)
(* the request up while the handler runs, and by the server once the       *)
(* handler has returned.                                                   *)

\* Whether the handler stops after FindOne with "user_exists".
signupExists(findErr) == findErr = "nil"

\* The User value handed to InsertOne.
signupUser(in, hashedPassword) ==
    [ID |-> 0, Email |-> in.Email, Password |-> hashedPassword,
     FirstName |-> in.FirstName, LastName |-> in.LastName]

\* signupAfterLookup with the error of GenerateFromPassword ignored: the
\* handler goes on to the insert with the empty hash the failed call returned.
signupAfterLookupHashErrorIgnored(in, coll, dbOK, hashOK) ==
    LET base == [kind |-> "signup", pc |-> "done", in |-> in, findErr |-> "-",
                 hashErr |-> "-", insertErr |-> "-", tokenErr |-> "-",
                 user |-> ZeroUser, requestCanceled |-> TRUE, resp |-> NoResponse]
        findErr == FindOneErr(ByEmail(coll, in.Email), dbOK)
    IN  IF ~in.bindOK
        THEN [base EXCEPT !.resp = ErrorResponse(400, "validation_error", "bind_error")]
        ELSE IF signupExists(findErr)
        THEN [base EXCEPT !.findErr = findErr,
                  !.resp = ErrorResponse(409, "user_exists",
                                         "User with this email already exists")]
        ELSE [base EXCEPT !.pc = "insert", !.requestCanceled = FALSE,
                  !.findErr = findErr,
                  !.hashErr = IF hashOK THEN "nil" ELSE "hash_error",
                  !.user = signupUser(in, IF hashOK THEN GenerateFromPassword(in.Password)
                                          ELSE "")]

\* The request after the first part of the handler.
signupAfterLookup(in, coll, dbOK, hashOK) ==
    LET base == [kind |-> "signup", pc |-> "done", in |-> in, findErr |-> "-",
                 hashErr |-> "-", insertErr |-> "-", tokenErr |-> "-",
                 user |-> ZeroUser, requestCanceled |-> TRUE, resp |-> NoResponse]
        findErr == FindOneErr(ByEmail(coll, in.Email), dbOK)
    IN  IF ~in.bindOK
        THEN [base EXCEPT !.resp = ErrorResponse(400, "validation_error", "bind_error")]
        ELSE IF signupExists(findErr)
        THEN [base EXCEPT !.findErr = findErr,
                  !.resp = ErrorResponse(409, "user_exists",
                                         "User with this email already exists")]
        ELSE IF ~hashOK
        THEN [base EXCEPT !.findErr = findErr, !.hashErr = "hash_error",
                  !.resp = ErrorResponse(500, "server_error", "Failed to process password")]
        ELSE [base EXCEPT !.pc = "insert", !.requestCanceled = FALSE,
                  !.findErr = findErr, !.hashErr = "nil",
                  !.user = signupUser(in, GenerateFromPassword(in.Password))]

\* Whether ctx is cancelled before its timeout when the caller has given the
\* request up: ctx descends from context.Background(), not from the
\* request's context, so it is not.
storeContextCanceled(requestCanceled) == FALSE

\* The error of InsertOne: ctx is cancelled, the call fails or times out, or
\* the collection has a unique index on email and the email is already
\* stored.
InsertOneErr(coll, doc, unique, dbOK, canceled) ==
    IF canceled THEN "context_canceled"
    ELSE IF ~dbOK THEN "store_error"
    ELSE IF unique /\ ByEmail(coll, doc.Email) # {}
    THEN "duplicate_key"
    ELSE "nil"

\* signupTokenSubject with the identifier of existingUser, which FindOne left
\* at its zero value, in place of the identifier of the inserted user.
signupTokenSubjectOfExisting(user) == "00"

\* The identifier text signupHandler asks a token for.
signupTokenSubject(user) == Hex(user.ID)

\* The response to a failed InsertOne.
signupInsertFailed(insertErr) ==
    ErrorResponse(500, "database_error", "Failed to create user")

\* The request after the second part of the handler; id is InsertedID.
signupAfterInsert(rec, insertErr, id, tokenOK) ==
    IF insertErr # "nil"
    THEN [rec EXCEPT !.pc = "done", !.requestCanceled = TRUE, !.insertErr = insertErr,
              !.resp = signupInsertFailed(insertErr)]
    ELSE LET user == [rec.user EXCEPT !.ID = id]
         IN  IF ~tokenOK
             THEN [rec EXCEPT !.pc = "done", !.requestCanceled = TRUE,
                       !.insertErr = "nil", !.user = user,
                       !.tokenErr = "token_error",
                       !.resp = ErrorResponse(500, "token_error",
                                              "Failed to generate authentication token")]
             ELSE [rec EXCEPT !.pc = "done", !.requestCanceled = TRUE,
                       !.insertErr = "nil", !.user = user,
                       !.tokenErr = "nil",
                       !.resp = LoginResponse(201, user,
                                              generateJWT(signupTokenSubject(user)))]

signupLookup(r, in, dbOK, hashOK) ==
    /\ CanArrive(r)
    /\ req' = [req EXCEPT ![r] = signupAfterLookup(in, usersColl, dbOK, hashOK)]
    /\ UNCHANGED <<usersColl, reportsColl, uniqueEmail>>

\* signupInsert with the insert made an upsert on the email: the stored
\* account of that email, if any, is overwritten with the new document.
signupInsertUpsert(r, dbOK, tokenOK) ==
    /\ req[r].kind = "signup" /\ req[r].pc = "insert"
    /\ LET insertErr == IF dbOK THEN "nil" ELSE "store_error"
           same == ByEmail(usersColl, req[r].user.Email)
           id == IF same = {} THEN NewObjectID(usersColl) ELSE usersColl[Min(same)].ID
       IN  /\ usersColl' = IF insertErr # "nil" THEN usersColl
                           ELSE IF same = {}
                           THEN Append(usersColl, [req[r].user EXCEPT !.ID = id])
                           ELSE [usersColl EXCEPT ![Min(same)] = [req[r].user EXCEPT !.ID = id]]
           /\ req' = [req EXCEPT ![r] = signupAfterInsert(req[r], insertErr, id, tokenOK)]
    /\ UNCHANGED <<reportsColl, uniqueEmail>>

\* signupInsert behind a lock shared by the requests: the insert of r waits
\* until no other request has an insert in flight.
signupInsertLocked(r, dbOK, tokenOK) ==
    /\ req[r].kind = "signup" /\ req[r].pc = "insert"
    /\ \A q \in Req \ {r} : req[q].pc # "insert"
    /\ LET insertErr == InsertOneErr(usersColl, req[r].user, uniqueEmail, dbOK,
                                     storeContextCanceled(req[r].requestCanceled))
           id == NewObjectID(usersColl)
       IN  /\ usersColl' = IF insertErr = "nil"
                           THEN Append(usersColl, [req[r].user EXCEPT !.ID = id])
                           ELSE usersColl
           /\ req' = [req EXCEPT ![r] = signupAfterInsert(req[r], insertErr, id, tokenOK)]
    /\ UNCHANGED <<reportsColl, uniqueEmail>>

signupInsert(r, dbOK, tokenOK) ==
    /\ req[r].kind = "signup" /\ req[r].pc = "insert"
    /\ LET insertErr == InsertOneErr(usersColl, req[r].user, uniqueEmail, dbOK,
                                     storeContextCanceled(req[r].requestCanceled))
           id == NewObjectID(usersColl)
       IN  /\ usersColl' = IF insertErr = "nil"
                           THEN Append(usersColl, [req[r].user EXCEPT !.ID = id])
                           ELSE usersColl
           /\ req' = [req EXCEPT ![r] = signupAfterInsert(req[r], insertErr, id, tokenOK)]
    /\ UNCHANGED <<reportsColl, uniqueEmail>>

\* The caller gives up the request r while its InsertOne is in flight.
abandon(r) ==
    /\ req[r].kind = "signup" /\ req[r].pc = "insert" /\ ~req[r].requestCanceled
    /\ req' = [req EXCEPT ![r].requestCanceled = TRUE]
    /\ UNCHANGED <<usersColl, reportsColl, uniqueEmail>>

---------------------------------------------------------------------------
(* loginHandler: one step, its only store call is FindOne.  The other      *)
(* handlers have no position between their store calls at which another    *)
(* request could change what they read, so each is one step.               *)

\* The identifier text loginHandler asks a token for.
loginTokenSubject(user) == Hex(user.ID)

\* loginFindFailed with a response of its own for an unknown email.
loginFindFailedUserNotFound(findErr) ==
    IF findErr = "ErrNoDocuments"
    THEN ErrorResponse(404, "user_not_found", "User not found")
    ELSE ErrorResponse(500, "database_error", "Failed to authenticate user")

\* The response to a FindOne that returned an error.
loginFindFailed(findErr) ==
    IF findErr = "ErrNoDocuments"
    THEN ErrorResponse(401, "invalid_credentials", "Invalid email or password")
    ELSE ErrorResponse(500, "database_error", "Failed to authenticate user")

\* The response to a password that does not match the stored hash.
loginWrongPassword ==
    ErrorResponse(401, "invalid_credentials", "Invalid email or password")

loginResult(in, coll, dbOK, tokenOK) ==
    LET base == [kind |-> "login", pc |-> "done", in |-> in, findErr |-> "-",
                 compareErr |-> "-", tokenErr |-> "-", user |-> ZeroUser,
                 resp |-> NoResponse]
        findErr == FindOneErr(ByEmail(coll, in.Email), dbOK)
        user == FindOneDoc(coll, ByEmail(coll, in.Email))
    IN  IF ~in.bindOK
        THEN [base EXCEPT !.resp = ErrorResponse(400, "validation_error", "bind_error")]
        ELSE IF findErr # "nil"
        THEN [base EXCEPT !.findErr = findErr, !.resp = loginFindFailed(findErr)]
        ELSE IF ~CompareHashAndPassword(user.Password, in.Password)
        THEN [base EXCEPT !.findErr = "nil", !.user = user, !.compareErr = "mismatch",
                  !.resp = loginWrongPassword]
        ELSE IF ~tokenOK
        THEN [base EXCEPT !.findErr = "nil", !.user = user, !.compareErr = "nil",
                  !.tokenErr = "token_error",
                  !.resp = ErrorResponse(500, "token_error",
                                         "Failed to generate authentication token")]
        ELSE [base EXCEPT !.findErr = "nil", !.user = user, !.compareErr = "nil",
                  !.tokenErr = "nil",
                  !.resp = LoginResponse(200, user, generateJWT(loginTokenSubject(user)))]

loginHandler(r, in, dbOK, tokenOK) ==
    /\ CanArrive(r)
    /\ req' = [req EXCEPT ![r] = loginResult(in, usersColl, dbOK, tokenOK)]
    /\ UNCHANGED <<usersColl, reportsColl, uniqueEmail>>

---------------------------------------------------------------------------
(* getReportsHandler: Find, then the cursor loop.  The reports collection  *)
(* does not change while the handlers run, so both are one step.           *)

\* The error of reportsColl.Find: nil, or the call failed or timed out.
FindErr(dbOK) == IF dbOK THEN "nil" ELSE "store_error"

\* reportsFilter with an empty filter: every document of the collection.
reportsFilterNone(coll, userID) == coll

\* The documents the cursor yields for the filter user_id = userID.
reportsFilter(coll, userID) == SelectSeq(coll, LAMBDA d : d.UserID = userID)

\* The slice the loop builds: nil until the first append.
reportsData(matched) == [null |-> matched = << >>, items |-> matched]

\* getReportsResult with an empty result answered 404 "no_report_found".
getReportsResultEmptyIsNotFound(userID, coll, dbOK, cursorOutcome) ==
    LET base == [kind |-> "reports", pc |-> "done", userID |-> userID,
                 findErr |-> "-", cursorErr |-> "-", resp |-> NoResponse]
        matched == reportsFilter(coll, userID)
    IN  IF ~dbOK
        THEN [base EXCEPT !.findErr = "store_error",
                  !.resp = ErrorResponse(500, "database_error",
                                         "Failed to fetch user reports")]
        ELSE IF matched = << >>
        THEN [base EXCEPT !.findErr = "nil", !.cursorErr = "nil",
                  !.resp = ErrorResponse(404, "no_report_found", "No report found")]
        ELSE [base EXCEPT !.findErr = "nil", !.cursorErr = "nil",
                  !.resp = SuccessResponse("Reports fetched successfully",
                                           reportsData(matched))]

\* cursorOutcome is what the iteration meets: "nil", "decode_error" (Decode
\* fails on a document) or "cursor_error" (cursor.Err() after the loop).
getReportsResult(userID, coll, dbOK, cursorOutcome) ==
    LET base == [kind |-> "reports", pc |-> "done", userID |-> userID,
                 findErr |-> "-", cursorErr |-> "-", resp |-> NoResponse]
        findErr == FindErr(dbOK)
        matched == reportsFilter(coll, userID)
    IN  IF findErr # "nil"
        THEN [base EXCEPT !.findErr = findErr,
                  !.resp = IF findErr = "ErrNoDocuments"
                           THEN ErrorResponse(404, "no_report_found", "No report found")
                           ELSE ErrorResponse(500, "database_error",
                                              "Failed to fetch user reports")]
        ELSE IF cursorOutcome = "decode_error" /\ matched # << >>
        THEN [base EXCEPT !.findErr = "nil", !.cursorErr = "decode_error",
                  !.resp = ErrorResponse(500, "database_error", "Failed to decode report")]
        ELSE IF cursorOutcome = "cursor_error"
        THEN [base EXCEPT !.findErr = "nil", !.cursorErr = "cursor_error",
                  !.resp = ErrorResponse(500, "database_error",
                                         "Failed to fetch user reports")]
        ELSE [base EXCEPT !.findErr = "nil", !.cursorErr = "nil",
                  !.resp = SuccessResponse("Reports fetched successfully",
                                           reportsData(matched))]

getReportsHandler(r, userID, dbOK, cursorOutcome) ==
    /\ CanArrive(r)
    /\ req' = [req EXCEPT ![r] = getReportsResult(userID, reportsColl, dbOK, cursorOutcome)]
    /\ UNCHANGED <<usersColl, reportsColl, uniqueEmail>>

---------------------------------------------------------------------------
(* getUserInfoHandler: ObjectIDFromHex, FindOne by _id, CountDocuments.    *)

\* CountDocuments for the filter user_id = userID.
CountDocuments(coll, userID) == Cardinality(ByUserID(coll, userID))

\* userInfoCount without the reset to 0: the failed count keeps a sentinel.
userInfoCountKeepsError(coll, userID, countOK) ==
    IF countOK THEN CountDocuments(coll, userID) ELSE -1

\* userInfoCount filtering on the identifier of the account found, printed
\* back as hex, in place of the context text.
userInfoCountByHex(coll, userID, countOK) ==
    IF countOK THEN CountDocuments(coll, Hex(ObjectIDFromHex(userID))) ELSE 0

\* reportsCount after the error check on CountDocuments.
userInfoCount(coll, userID, countOK) ==
    IF countOK THEN CountDocuments(coll, userID) ELSE 0

\* userInfoMap with the stored password copied into the map.
userInfoMapWithPassword(user, reportsCount) ==
    [user_id |-> Hex(user.ID), email |-> user.Email, first_name |-> user.FirstName,
     last_name |-> user.LastName, username |-> user.FirstName \o " " \o user.LastName,
     attacks_count |-> reportsCount, password |-> user.Password]

\* The userInfo map (created_at is left out: time is not modelled).
userInfoMap(user, reportsCount) ==
    [user_id |-> Hex(user.ID), email |-> user.Email, first_name |-> user.FirstName,
     last_name |-> user.LastName, username |-> user.FirstName \o " " \o user.LastName,
     attacks_count |-> reportsCount]

getUserInfoResult(userID, users, reports, dbOK, countOK) ==
    LET base == [kind |-> "userinfo", pc |-> "done", userID |-> userID,
                 parseErr |-> "-", findErr |-> "-", countErr |-> "-",
                 user |-> ZeroUser, resp |-> NoResponse]
        objectID == ObjectIDFromHex(userID)
        findErr == FindOneErr(ByID(users, objectID), dbOK)
        user == FindOneDoc(users, ByID(users, objectID))
    IN  IF objectID = 0
        THEN [base EXCEPT !.parseErr = "invalid_hex",
                  !.resp = ErrorResponse(400, "invalid_user_id", "Invalid user ID format")]
        ELSE IF findErr = "ErrNoDocuments"
        THEN [base EXCEPT !.parseErr = "nil", !.findErr = findErr,
                  !.resp = ErrorResponse(404, "user_not_found", "User not found")]
        ELSE IF findErr # "nil"
        THEN [base EXCEPT !.parseErr = "nil", !.findErr = findErr,
                  !.resp = ErrorResponse(500, "database_error",
                                         "Failed to fetch user information")]
        ELSE [base EXCEPT !.parseErr = "nil", !.findErr = "nil", !.user = user,
                  !.countErr = IF countOK THEN "nil" ELSE "store_error",
                  !.resp = SuccessResponse("User information fetched successfully",
                               userInfoMap(user, userInfoCount(reports, userID, countOK)))]

getUserInfoHandler(r, userID, dbOK, countOK) ==
    /\ CanArrive(r)
    /\ req' = [req EXCEPT ![r] =
                  getUserInfoResult(userID, usersColl, reportsColl, dbOK, countOK)]
    /\ UNCHANGED <<usersColl, reportsColl, uniqueEmail>>

---------------------------------------------------------------------------
Init ==
    /\ usersColl \in {<< >>, <<SeedUser>>}
    /\ \E k \in {0, 1, MaxReports} : reportsColl = ReportsFixture(k)
    /\ uniqueEmail \in BOOLEAN
    /\ req = [r \in Req |-> Idle]

Next ==
    \E r \in Req :
        \/ \E in \in SignupRequests, dbOK \in BOOLEAN, hashOK \in BOOLEAN :
              signupLookup(r, in, dbOK, hashOK)
        \/ \E dbOK \in BOOLEAN, tokenOK \in BOOLEAN : signupInsert(r, dbOK, tokenOK)
        \/ abandon(r)
        \/ \E in \in LoginRequests, dbOK \in BOOLEAN, tokenOK \in BOOLEAN :
              loginHandler(r, in, dbOK, tokenOK)
        \/ \E userID \in UserIDs, dbOK \in BOOLEAN,
              cursorOutcome \in {"nil", "decode_error", "cursor_error"} :
              getReportsHandler(r, userID, dbOK, cursorOutcome)
        \/ \E userID \in UserIDs, dbOK \in BOOLEAN, countOK \in BOOLEAN :
              getUserInfoHandler(r, userID, dbOK, countOK)

Spec == Init /\ [][Next]_vars

\* InsertOne runs under ctx, which expires after 25 seconds: the call of every
\* request returns, with or without error, and its handler goes on.
FairSpec ==
    Spec /\ \A r \in Req :
                WF_vars(\E dbOK \in BOOLEAN, tokenOK \in BOOLEAN : signupInsert(r, dbOK, tokenOK))

---------------------------------------------------------------------------
(* Vocabulary of the properties.                                           *)

Done(r) == req[r].pc = "done"
IsDone(r, kind) == req[r].kind = kind /\ req[r].pc = "done"

\* The request r arrives in this step and is handled by the handler kind.
Arrives(r, kind) == req[r].pc = "idle" /\ req'[r].kind = kind

UserExistsResponse ==
    ErrorResponse(409, "user_exists", "User with this email already exists")

InvalidCredentialsResponse ==
    ErrorResponse(401, "invalid_credentials", "Invalid email or password")

---------------------------------------------------------------------------
\* C1: in every reachable state, whatever the interleaving of the signup
\* requests, the users collection holds at most one account per email.
C1_OneAccountPerEmail ==
    \A i, j \in DOMAIN usersColl :
        usersColl[i].Email = usersColl[j].Email => i = j

\* C2: a well-formed signup whose email belongs to a stored account when the
\* handler looks it up is answered 409 "user_exists" and ends there, the
\* collection unchanged with one account of that email.
C2_ExistingEmailRejected ==
    [][\A r \in Req :
          (/\ Arrives(r, "signup")
           /\ req'[r].in.bindOK
           /\ ByEmail(usersColl, req'[r].in.Email) # {})
          => (/\ req'[r].pc = "done"
              /\ req'[r].resp = UserExistsResponse
              /\ usersColl' = usersColl
              /\ Cardinality(ByEmail(usersColl', req'[r].in.Email)) = 1)]_vars

\* C3: when two signups with the same email both find no account for it
\* and one insert is accepted, the signup whose insert is rejected because
\* the email is now stored answers 409 "user_exists".
C3_LosingInsertIsConflict ==
    \A r, w \in Req :
        (/\ r # w
         /\ IsDone(r, "signup") /\ IsDone(w, "signup")
         /\ req[r].in.Email = req[w].in.Email
         /\ req[r].findErr = "ErrNoDocuments" /\ req[w].findErr = "ErrNoDocuments"
         /\ req[w].insertErr = "nil"
         /\ req[r].insertErr = "duplicate_key")
        => req[r].resp = UserExistsResponse

\* A signup that met no failure: the lookup found no account, the hash was
\* made, the insert was accepted and the token was issued.
SignupUnhindered(r) ==
    /\ IsDone(r, "signup") /\ req[r].in.bindOK
    /\ req[r].findErr = "ErrNoDocuments" /\ req[r].hashErr = "nil"
    /\ req[r].insertErr = "nil" /\ req[r].tokenErr = "nil"

\* C4: a well-formed signup with an email that is not stored, met by no
\* store, hashing or token failure, answers 201; the collection holds exactly
\* one account with the identifier the insert assigned, that account carries
\* the request's email and names and a hash of its password, and the token
\* is the one issued for that identifier.
C4_SignupCreatesAccount ==
    \A r \in Req :
        SignupUnhindered(r) =>
            LET ids == ByID(usersColl, req[r].user.ID)
            IN  /\ req[r].resp.status = 201
                /\ Cardinality(ids) = 1
                /\ \A i \in ids :
                      /\ usersColl[i].Email = req[r].in.Email
                      /\ usersColl[i].FirstName = req[r].in.FirstName
                      /\ usersColl[i].LastName = req[r].in.LastName
                      /\ CompareHashAndPassword(usersColl[i].Password, req[r].in.Password)
                      /\ req[r].resp.body.token = generateJWT(Hex(usersColl[i].ID))
                      /\ req[r].resp.body.user.email = req[r].in.Email

C4_Witness == \E r \in Req : SignupUnhindered(r)

\* C5: a well-formed login met by no store or token failure, whose email and
\* password are those of a stored account, answers 200 with the token issued
\* for the identifier of that account.
C5_LoginIssuesTokenForAccount ==
    [][\A r \in Req :
          (/\ Arrives(r, "login")
           /\ req'[r].in.bindOK
           /\ req'[r].findErr # "store_error"
           /\ req'[r].tokenErr # "token_error")
          => \A i \in ByEmail(usersColl, req'[r].in.Email) :
                CompareHashAndPassword(usersColl[i].Password, req'[r].in.Password)
                => (/\ req'[r].resp.status = 200
                    /\ req'[r].resp.body.token = generateJWT(Hex(usersColl[i].ID)))]_vars

\* The email of the login request is that of no stored account.
UnknownEmail(in, coll) == ByEmail(coll, in.Email) = {}

\* The email is stored and the password is that of no account with it.
WrongPassword(in, coll) ==
    /\ ByEmail(coll, in.Email) # {}
    /\ \A i \in ByEmail(coll, in.Email) :
          ~CompareHashAndPassword(coll[i].Password, in.Password)

\* C6: a login with an unknown email and a login with a known email and a
\* wrong password get the same response, 401 "invalid_credentials" with the
\* same message, and no token; the responses also agree when the lookup fails
\* in the store for both.
C6_SameRejection ==
    /\ \A r1, r2 \in Req :
          (/\ IsDone(r1, "login") /\ req[r1].findErr = "ErrNoDocuments"
           /\ IsDone(r2, "login") /\ req[r2].findErr = "nil"
           /\ req[r2].compareErr = "mismatch")
          => (/\ req[r1].resp = req[r2].resp
              /\ req[r1].resp = InvalidCredentialsResponse)
    /\ \A in1, in2 \in LoginRequests, dbOK \in BOOLEAN, tokenOK \in BOOLEAN :
          (/\ in1.bindOK /\ in2.bindOK
           /\ UnknownEmail(in1, usersColl) /\ WrongPassword(in2, usersColl))
          => LET resp1 == loginResult(in1, usersColl, dbOK, tokenOK).resp
                 resp2 == loginResult(in2, usersColl, dbOK, tokenOK).resp
             IN  /\ resp1 = resp2
                 /\ "token" \notin DOMAIN resp1.body
                 /\ dbOK => resp1 = InvalidCredentialsResponse

C6_Witness ==
    \E r1, r2 \in Req :
        /\ IsDone(r1, "login") /\ req[r1].findErr = "ErrNoDocuments"
        /\ IsDone(r2, "login") /\ req[r2].findErr = "nil"
        /\ req[r2].compareErr = "mismatch"

\* The store calls C7 names: the lookups, the insert, Find and the cursor.
StoreCallFailed(r) ==
    \/ req[r].kind \in {"signup", "login", "reports", "userinfo"}
          /\ req[r].findErr = "store_error"
    \/ req[r].kind = "signup" /\ req[r].insertErr \in {"store_error", "context_canceled"}
    \/ req[r].kind = "reports" /\ req[r].cursorErr \in {"decode_error", "cursor_error"}

\* C7: a request one of whose store calls failed for another reason than
\* "no document" has ended with 500 "database_error" (so it issues no insert
\* afterwards); a failed lookup in signup is not taken for "email not in use".
C7_StoreFailureIsPersistenceError ==
    \A r \in Req :
        StoreCallFailed(r) =>
            /\ req[r].pc = "done"
            /\ req[r].resp.status = 500
            /\ req[r].resp.body.error = "database_error"
            /\ req[r].kind = "signup" /\ req[r].findErr = "store_error"
                  => req[r].insertErr = "-"

\* The texts a response carries and the keys of the account view in it.
BodyTexts(r) ==
    LET body == req[r].resp.body
    IN  IF "error" \in DOMAIN body THEN {body.error, body.message}
        ELSE IF "token" \in DOMAIN body
        THEN {body.token} \cup {body.user[k] : k \in DOMAIN body.user}
        ELSE IF req[r].kind = "userinfo"
        THEN {body.message}
             \cup {body.data[k] : k \in DOMAIN body.data \ {"attacks_count"}}
        ELSE {body.message}
             \cup {body.data.items[i].UserID : i \in DOMAIN body.data.items}

AccountKeys(r) ==
    LET body == req[r].resp.body
    IN  IF "user" \in DOMAIN body THEN DOMAIN body.user
        ELSE IF req[r].kind = "userinfo" /\ "data" \in DOMAIN body THEN DOMAIN body.data
        ELSE {}

\* The plaintext passwords the requests carried and the hashes made or stored.
Secrets ==
    {req[r].in.Password : r \in {q \in Req : req[q].kind \in {"signup", "login"}
                                              /\ req[q].in.bindOK}}
    \cup {req[r].user.Password : r \in {q \in Req : req[q].kind \in {"signup", "login"}
                                                    /\ req[q].user # ZeroUser}}
    \cup {usersColl[i].Password : i \in DOMAIN usersColl}

ProfileFound(r, countErr) ==
    /\ IsDone(r, "userinfo") /\ req[r].parseErr = "nil" /\ req[r].findErr = "nil"
    /\ req[r].countErr = countErr

\* The fields of the profile are those of the stored account with the
\* identifier the context text decodes to.
ProfileOfAccount(r) ==
    LET data == req[r].resp.body.data
        ids == ByID(usersColl, ObjectIDFromHex(req[r].userID))
    IN  /\ ids # {}
        /\ \A i \in ids :
              /\ data.user_id = Hex(usersColl[i].ID)
              /\ data.email = usersColl[i].Email
              /\ data.first_name = usersColl[i].FirstName
              /\ data.last_name = usersColl[i].LastName

\* C9: a profile lookup with a well-formed identifier whose account is found
\* and whose report count fails still answers 200, with the account's fields
\* and attacks_count 0.
C9_CountFailureDegradesToZero ==
    \A r \in Req :
        ProfileFound(r, "store_error") =>
            /\ req[r].resp.status = 200
            /\ req[r].resp.body.data.attacks_count = 0
            /\ ProfileOfAccount(r)

C9_Witness ==
    \E r \in Req :
        /\ ProfileFound(r, "store_error")
        /\ CountDocuments(reportsColl, req[r].userID) > 0

\* C10: a successful profile lookup whose report count succeeded carries as
\* attacks_count the number of reports whose owner text equals the context
\* identifier (0 for none), and the account's user_id, email and names.
C10_ProfileCountsOwnedReports ==
    \A r \in Req :
        (ProfileFound(r, "nil") /\ req[r].resp.status = 200) =>
            /\ req[r].resp.body.data.attacks_count
                  = Cardinality({i \in DOMAIN reportsColl :
                                    reportsColl[i].UserID = req[r].userID})
            /\ ProfileOfAccount(r)
            /\ req[r].resp.body.data.username
                  = req[r].resp.body.data.first_name \o " " \o req[r].resp.body.data.last_name

C10_Witness ==
    /\ \E r \in Req :
          /\ ProfileFound(r, "nil") /\ req[r].resp.status = 200
          /\ req[r].resp.body.data.attacks_count = MaxReports
    /\ \E r \in Req :
          /\ ProfileFound(r, "nil") /\ req[r].resp.status = 200
          /\ req[r].resp.body.data.attacks_count = 0

\* A report listing whose Find and cursor met no store failure.
ListingServed(r) ==
    IsDone(r, "reports") /\ req[r].findErr = "nil" /\ req[r].cursorErr = "nil"

\* C11: a report listing for an identifier that owns no report, the store
\* being available, answers 200 with a sequence of no reports, and not 404.
C11_EmptyListingIsSuccess ==
    \A r \in Req :
        (ListingServed(r) /\ ByUserID(reportsColl, req[r].userID) = {})
        => (/\ req[r].resp.status = 200
            /\ "error" \notin DOMAIN req[r].resp.body
            /\ Len(req[r].resp.body.data.items) = 0)

C11_Witness ==
    \E r \in Req :
        /\ ListingServed(r) /\ ByUserID(reportsColl, req[r].userID) = {}
        /\ ObjectIDFromHex(req[r].userID) # 0

\* The text is the hex form of an ObjectID.
WellFormedID(s) == \E n \in DOMAIN HexLower : s = HexLower[n] \/ s = HexUpper[n]

\* C12: a profile lookup with a malformed identifier answers 400
\* "invalid_user_id" without having issued a store call; one with a
\* well-formed identifier that no account carries answers 404
\* "user_not_found" when the lookup is answered, and never 200.
C12_ProfileRejectsBadIdentifier ==
    [][\A r \in Req :
          Arrives(r, "userinfo") =>
             /\ ~WellFormedID(req'[r].userID)
                   => (/\ req'[r].resp
                             = ErrorResponse(400, "invalid_user_id", "Invalid user ID format")
                       /\ req'[r].findErr = "-" /\ req'[r].countErr = "-")
             /\ (/\ WellFormedID(req'[r].userID)
                 /\ ByID(usersColl, ObjectIDFromHex(req'[r].userID)) = {})
                   => (/\ req'[r].resp.status # 200
                       /\ req'[r].findErr # "store_error"
                             => req'[r].resp
                                   = ErrorResponse(404, "user_not_found", "User not found"))]_vars

C12_Witness ==
    /\ \E r \in Req : IsDone(r, "userinfo") /\ req[r].resp.status = 400
    /\ \E r \in Req : IsDone(r, "userinfo") /\ req[r].resp.status = 404

\* C13: when the caller gives a request up while a store call of its
\* handler is in flight, that call is cancelled: it returns the cancellation
\* and is not served by the store.
C13_AbandonedCallIsCanceled ==
    [][\A r \in Req :
          (/\ req[r].kind = "signup" /\ req[r].pc = "insert"
           /\ req[r].requestCanceled
           /\ req'[r].pc = "done")
          => (req'[r].insertErr = "context_canceled" /\ usersColl' = usersColl)]_vars

\* C14: a successful report listing carries exactly the reports of the
\* collection whose owner text equals the context identifier, each once.
C14_ListingIsOwnedReports ==
    \A r \in Req :
        (IsDone(r, "reports") /\ req[r].resp.status = 200) =>
            LET items == req[r].resp.body.data.items
                owned == ByUserID(reportsColl, req[r].userID)
            IN  /\ {items[i] : i \in DOMAIN items} = {reportsColl[i] : i \in owned}
                /\ Len(items) = Cardinality(owned)
                /\ \A i \in DOMAIN items : items[i].UserID = req[r].userID

C14_Witness ==
    \E r \in Req :
        /\ IsDone(r, "reports") /\ req[r].resp.status = 200
        /\ Len(req[r].resp.body.data.items) > 0
        /\ Len(req[r].resp.body.data.items) < Len(reportsColl)

\* C15: in every step the stored accounts stay, each with its identifier,
\* email and password hash, and the reports stay; the arrival and handling of
\* a login, a report listing or a profile lookup changes neither collection;
\* the users collection changes only by the accepted insert of a signup at
\* its insert step, which appends one account.
C15_StoresChangeOnlyBySignupInsert ==
    [][/\ reportsColl' = reportsColl
       /\ \A i \in DOMAIN usersColl :
             i \in DOMAIN usersColl' /\ usersColl'[i] = usersColl[i]
       /\ \A r \in Req :
             (req'[r] # req[r] /\ req'[r].kind \in {"login", "reports", "userinfo"})
             => usersColl' = usersColl
       /\ usersColl' # usersColl
             => \E r \in Req :
                   /\ req[r].kind = "signup" /\ req[r].pc = "insert"
                   /\ req'[r].pc = "done" /\ req'[r].insertErr = "nil"
                   /\ usersColl' = Append(usersColl, req'[r].user)]_vars

C15_Witness ==
    /\ \E r \in Req : IsDone(r, "signup") /\ req[r].insertErr = "nil"
    /\ \E r \in Req : req[r].kind \in {"login", "reports", "userinfo"} /\ Done(r)
    /\ Len(usersColl) > 1

ValidationErrorResponse == ErrorResponse(400, "validation_error", "bind_error")

HashingErrorResponse == ErrorResponse(500, "server_error", "Failed to process password")

\* C16: the step in which a signup is answered with the validation error or
\* the hashing error leaves the users collection as it was, and that signup
\* has issued no insert; a signup whose insert is issued has a parsed body, a
\* lookup that has returned, and the hash of its password in the document.
C16_NoInsertBeforeParseLookupHash ==
    [][\A r \in Req :
          /\ (/\ req'[r] # req[r] /\ req'[r].kind = "signup"
              /\ req'[r].resp \in {ValidationErrorResponse, HashingErrorResponse})
             => /\ usersColl' = usersColl
                /\ req[r].pc = "idle" /\ req'[r].pc = "done"
                /\ req'[r].insertErr = "-"
          /\ (req[r].kind = "signup" /\ req[r].pc = "insert" /\ req'[r].pc = "done")
             => /\ req[r].in.bindOK
                /\ req[r].findErr \in {"ErrNoDocuments", "store_error"}
                /\ req[r].hashErr = "nil"
                /\ req[r].user.Password = GenerateFromPassword(req[r].in.Password)]_vars

C16_Witness ==
    /\ \E r \in Req : IsDone(r, "signup") /\ req[r].resp = ValidationErrorResponse
    /\ \E r \in Req : IsDone(r, "signup") /\ req[r].resp = HashingErrorResponse
                         /\ req[r].hashErr = "hash_error"

\* The signup r has stored its account and then failed to get a token.
TokenFailedAfterInsert(r) ==
    /\ IsDone(r, "signup") /\ req[r].insertErr = "nil"
    /\ req[r].tokenErr = "token_error"

\* C17: a signup whose token fails after its insert answers 500 token_error
\* and its account stays stored; every well-formed signup arriving later with
\* the same email answers 409 user_exists, and every login arriving later
\* with that email and the password of the signup, its lookup answered,
\* passes the password comparison.
C17_TokenFailureKeepsAccount ==
    [][\A r1 \in Req :
          TokenFailedAfterInsert(r1)
          => /\ req[r1].resp = ErrorResponse(500, "token_error",
                                             "Failed to generate authentication token")
             /\ \E i \in DOMAIN usersColl : usersColl[i] = req[r1].user
             /\ \A r2 \in Req :
                   /\ (/\ Arrives(r2, "signup") /\ req'[r2].in.bindOK
                       /\ req'[r2].in.Email = req[r1].in.Email)
                      => req'[r2].resp = UserExistsResponse
                   /\ (/\ Arrives(r2, "login") /\ req'[r2].in.bindOK
                       /\ req'[r2].in.Email = req[r1].in.Email
                       /\ req'[r2].in.Password = req[r1].in.Password
                       /\ req'[r2].findErr # "store_error")
                      => req'[r2].compareErr = "nil"]_vars

\* C18: a request that is being handled has written no response, a handled
\* request has written one, with a status and a body, and nothing of it
\* changes afterwards; the store call of a request in flight can return
\* whatever the other requests are doing; and every request in flight is
\* eventually handled.
C18_EveryRequestIsAnsweredOnce ==
    /\ [](\A r \in Req :
             /\ req[r].pc = "insert" => req[r].resp = NoResponse
             /\ req[r].pc = "done"
                => /\ req[r].resp.status \in {200, 201, 400, 401, 404, 409, 500}
                   /\ req[r].resp.body # NoResponse.body
             /\ req[r].pc = "insert"
                => ENABLED (\E dbOK \in BOOLEAN, tokenOK \in BOOLEAN :
                               signupInsert(r, dbOK, tokenOK)))
    /\ [][\A r \in Req : req[r].pc = "done" => req'[r] = req[r]]_vars
    /\ \A r \in Req : (req[r].pc = "insert") ~> (req[r].pc = "done")

C18_Witness ==
    /\ \E r \in Req : IsDone(r, "signup") /\ req[r].insertErr # "-"
    /\ \E r \in Req : req[r].kind \in {"login", "reports", "userinfo"} /\ Done(r)

====
